---- MODULE Spec2Model ----
(***************************************************************************)
(* p2r: pinboard-to-raindrop.  One run fetches the Pinboard export,        *)
(* transforms every bookmark, prints two summary lines and writes the      *)
(* successfully transformed bookmarks to a CSV file.                        *)
(*                                                                         *)
(* A Rust String is a sequence of one-character strings, so that lines(),  *)
(* trim(), join() and the RFC 3339 parser work on characters.              *)
(***************************************************************************)
EXTENDS Integers, Sequences, FiniteSets, TLC

(***************************************************************************)
(* Bounds of the model.                                                    *)
(***************************************************************************)
\* longest fetched collection
MaxRecords == 3
\* longest whitespace-only description that is enumerated
MaxWsLen == 3

(***************************************************************************)
(* String literals used by the program and its tests.                      *)
(***************************************************************************)
S_url == <<"u","r","l">>
S_url2 == <<"u","2">>
S_url3 == <<"u","3">>
S_title == <<"t","i","t","l","e">>
S_Imported == <<"I","m","p","o","r","t","e","d">>
S_PinboardImports == <<"P","i","n","b","o","a","r","d"," ","I","m","p","o","r","t","s">>
S_abc == <<"a"," ","b"," ","c">>
S_pinboard == <<"@","p","i","n","b","o","a","r","d">>
S_abc_pinboard == <<"a"," ","b"," ","c"," ","@","p","i","n","b","o","a","r","d">>
S_created == <<"2","0","1","7","-","0","4","-","0","3","T","1","5",":","5","9",":","3","9","Z">>
S_created_slashes == <<"2","0","1","7","/","0","4","/","0","3">>
S_created_offset == <<"2","0","1","7","-","0","4","-","0","3","T","1","5",":","5","9",":","3","9","+","0","1",":","0","0">>
S_created_day30 == <<"2","0","1","7","-","0","2","-","3","0","T","1","5",":","5","9",":","3","9","Z">>
S_created_nozone == <<"2","0","1","7","-","0","4","-","0","3","T","1","5",":","5","9",":","3","9">>
S_created_frac == <<"2","0","1","7","-","0","4","-","0","3","T","1","5",":","5","9",":","3","9",".","5","Z">>
S_created_leap == <<"2","0","1","6","-","0","2","-","2","9","t","0","0",":","0","0",":","0","0","z">>
S_created_hour24 == <<"2","0","1","7","-","0","4","-","0","3","T","2","4",":","0","0",":","0","0","Z">>
S_description == <<"F","u","s","c","e"," ","e","x"," ","l","i","g","u","l","a",","," ","a","u","c","t","o","r"," ","e","t","\n","v","e","s","t","i","b","u","l","u","m"," ","e","u",","," ","\r","\n","p","o","r","t","t","i","t","o","r"," ","a","t"," ","d","o","l","o","r",".","\n","\r">>
S_description_one_line == <<"F","u","s","c","e"," ","e","x"," ","l","i","g","u","l","a",","," ","a","u","c","t","o","r"," ","e","t"," ","v","e","s","t","i","b","u","l","u","m"," ","e","u",","," ","p","o","r","t","t","i","t","o","r"," ","a","t"," ","d","o","l","o","r",".">>
S_two_words == <<" ","a"," ","\n","b","\t">>

(***************************************************************************)
(* Option<String> and Result<T>.                                           *)
(***************************************************************************)
None == <<>>
Some(t) == <<t>>

Ok(v) == [ok |-> TRUE, val |-> v]
Err(e) == [ok |-> FALSE, val |-> e]

\* Result::is_ok, the predicate of the partition
Result_is_ok_always(r) == TRUE
Result_is_ok(r) == r.ok

(***************************************************************************)
(* str::trim, str::lines and [&str]::join.                                 *)
(***************************************************************************)
WhiteSpace == {" ", "\t", "\n", "\r"}

RECURSIVE TrimStart(_)
TrimStart(s) ==
    IF s = <<>> THEN <<>>
    ELSE IF Head(s) \in WhiteSpace THEN TrimStart(Tail(s))
    ELSE s

RECURSIVE TrimEnd(_)
TrimEnd(s) ==
    IF s = <<>> THEN <<>>
    ELSE IF s[Len(s)] \in WhiteSpace THEN TrimEnd(SubSeq(s, 1, Len(s) - 1))
    ELSE s

Trim(s) == TrimEnd(TrimStart(s))

\* the index of the first line feed of s, 0 when there is none
FirstLF(s) ==
    IF \E i \in 1..Len(s) : s[i] = "\n"
    THEN CHOOSE i \in 1..Len(s) : s[i] = "\n" /\ \A j \in 1..(i - 1) : s[j] # "\n"
    ELSE 0

\* a line that was ended by a line feed loses one carriage return before it
StripCR(l) ==
    IF l # <<>> /\ l[Len(l)] = "\r" THEN SubSeq(l, 1, Len(l) - 1) ELSE l

\* str::lines: split at "\n" or "\r\n"; the final line ending is optional
RECURSIVE Lines(_)
Lines(s) ==
    IF s = <<>> THEN <<>>
    ELSE LET i == FirstLF(s) IN
         IF i = 0 THEN <<s>>
         ELSE <<StripCR(SubSeq(s, 1, i - 1))>> \o Lines(SubSeq(s, i + 1, Len(s)))

RECURSIVE Join(_, _)
Join(parts, sep) ==
    IF parts = <<>> THEN <<>>
    ELSE IF Len(parts) = 1 THEN parts[1]
    ELSE parts[1] \o sep \o Join(Tail(parts), sep)

(***************************************************************************)
(* DateTime::parse_from_rfc3339, as called on the created field:           *)
(*   YYYY-MM-DD (T|t) hh:mm:ss [.digits] (Z|z|(+|-)hh:mm)                  *)
(* with the calendar and clock ranges checked.                             *)
(***************************************************************************)
Digits == {"0","1","2","3","4","5","6","7","8","9"}

DigitVal(c) ==
    CASE c = "0" -> 0 [] c = "1" -> 1 [] c = "2" -> 2 [] c = "3" -> 3
      [] c = "4" -> 4 [] c = "5" -> 5 [] c = "6" -> 6 [] c = "7" -> 7
      [] c = "8" -> 8 [] c = "9" -> 9

AllDigits(s, from, to) == \A i \in from..to : s[i] \in Digits

Num2(s, i) == 10 * DigitVal(s[i]) + DigitVal(s[i + 1])

Num4(s, i) == 100 * Num2(s, i) + Num2(s, i + 2)

IsLeapYear(y) == (y % 4 = 0 /\ y % 100 # 0) \/ y % 400 = 0

DaysInMonth(y, m) ==
    IF m = 2 THEN (IF IsLeapYear(y) THEN 29 ELSE 28)
    ELSE IF m \in {4, 6, 9, 11} THEN 30 ELSE 31

\* the index after an optional fraction that starts at i (i when there is none)
RECURSIVE SkipDigits(_, _)
SkipDigits(s, i) ==
    IF i <= Len(s) /\ s[i] \in Digits THEN SkipDigits(s, i + 1) ELSE i

AfterFraction(s, i) ==
    IF i <= Len(s) /\ s[i] = "."
    THEN (IF SkipDigits(s, i + 1) > i + 1 THEN SkipDigits(s, i + 1) ELSE 0)
    ELSE i

\* the zone that starts at i and must end the string
ZoneAt(s, i) ==
    \/ Len(s) = i /\ s[i] \in {"Z", "z"}
    \/ /\ Len(s) = i + 5
       /\ s[i] \in {"+", "-"}
       /\ AllDigits(s, i + 1, i + 2)
       /\ s[i + 3] = ":"
       /\ AllDigits(s, i + 4, i + 5)
       /\ Num2(s, i + 1) <= 23
       /\ Num2(s, i + 4) <= 59

parse_from_rfc3339(s) ==
    /\ Len(s) >= 20
    /\ AllDigits(s, 1, 4) /\ s[5] = "-"
    /\ AllDigits(s, 6, 7) /\ s[8] = "-"
    /\ AllDigits(s, 9, 10) /\ s[11] \in {"T", "t"}
    /\ AllDigits(s, 12, 13) /\ s[14] = ":"
    /\ AllDigits(s, 15, 16) /\ s[17] = ":"
    /\ AllDigits(s, 18, 19)
    /\ Num2(s, 6) \in 1..12
    /\ Num2(s, 9) \in 1..DaysInMonth(Num4(s, 1), Num2(s, 6))
    /\ Num2(s, 12) <= 23
    /\ Num2(s, 15) <= 59
    /\ Num2(s, 18) <= 60
    /\ AfterFraction(s, 20) # 0
    /\ ZoneAt(s, AfterFraction(s, 20))

ParseError == <<"chrono::ParseError">>

(***************************************************************************)
(* impl PinboardBookmark                                                   *)
(***************************************************************************)
PinboardBookmark(url, title, created, description, tags) ==
    [url |-> url, title |-> title, created |-> created,
     description |-> description, tags |-> tags]

RaindropBookmark(url, folder, title, description, tags, created) ==
    [url |-> url, folder |-> folder, title |-> title,
     description |-> description, tags |-> tags, created |-> created]

tag_trimmed(tags, user_tags) ==
    IF user_tags = None THEN tags
    ELSE Trim(Join(<<tags, user_tags[1]>>, <<" ">>))
tag(tags, user_tags) ==
    IF user_tags = None THEN tags
    ELSE Join(<<tags, user_tags[1]>>, <<" ">>)

clean_description(desc) ==
    Join([i \in 1..Len(Lines(desc)) |-> Trim(Lines(desc)[i])], <<" ">>)

into_raindrop_unvalidated(self, folder, user_tags, clean) ==
    Ok(RaindropBookmark(self.url, folder, self.title,
                        IF clean THEN clean_description(self.description)
                        ELSE self.description,
                        tag(self.tags, user_tags), self.created))
into_raindrop(self, folder, user_tags, clean) ==
    IF ~parse_from_rfc3339(self.created) THEN Err(ParseError)
    ELSE Ok(RaindropBookmark(self.url, folder, self.title,
                             IF clean THEN clean_description(self.description)
                             ELSE self.description,
                             tag(self.tags, user_tags), self.created))

(***************************************************************************)
(* pb_fetch: the outcome of the one GET request.                           *)
(***************************************************************************)
TransportError == <<"reqwest::Error", "request">>
DecodeError == <<"reqwest::Error", "decode">>
IoError == <<"io::Error">>

Http500Error == <<"HTTP 500: The Pinboard API token may be invalid">>
HttpUnknownError(s) == <<"HTTP ", s, ": Unknown error with the Pinboard API">>

\* what reqwest::get and json() give: no response at all, or a status and
\* the body deserialized into Vec<PinboardBookmark> (or failing to)
Response(transport_ok, status, json) ==
    [transport_ok |-> transport_ok, status |-> status, json |-> json]

pb_fetch_any_status(resp) ==
    IF ~resp.transport_ok THEN Err(TransportError)
    ELSE IF resp.status = 500 THEN Err(HttpUnknownError(resp.status))
    ELSE resp.json
pb_fetch_result(resp) ==
    IF ~resp.transport_ok THEN Err(TransportError)
    ELSE IF resp.status = 200 THEN resp.json
    ELSE IF resp.status = 500 THEN Err(Http500Error)
    ELSE Err(HttpUnknownError(resp.status))

(***************************************************************************)
(* stats: the two lines printed.                                           *)
(***************************************************************************)
\* the check mark and the cross are written by their code points
success_msg(n_ok) == <<"U+2713 ", n_ok, " bookmarks successfully processed">>
error_msg(n_error) == <<"U+2715 ", n_error, " bookmark processing errors ">>

stats_lines_swapped(n_ok, n_error) == <<success_msg(n_error), error_msg(n_ok)>>
stats_lines(n_ok, n_error) == <<success_msg(n_ok), error_msg(n_error)>>

(***************************************************************************)
(* write_file: the csv Writer writes the header with the first record it   *)
(* serializes, then one row per record, in the field order of the struct.  *)
(***************************************************************************)
Header == << <<"u","r","l">>, <<"f","o","l","d","e","r">>, <<"t","i","t","l","e">>,
            <<"d","e","s","c","r","i","p","t","i","o","n">>, <<"t","a","g","s">>,
            <<"c","r","e","a","t","e","d">> >>

Row(datum) == <<datum.url, datum.folder, datum.title, datum.description,
                datum.tags, datum.created>>

push_front(v, r) == <<r>> \o v
push(v, r) == Append(v, r)

(***************************************************************************)
(* Inputs of a run.                                                        *)
(***************************************************************************)
R_valid == PinboardBookmark(S_url, S_title, S_created, S_description, S_abc)
R_valid2 == PinboardBookmark(S_url2, S_title, S_created_offset, <<>>, <<>>)
R_invalid == PinboardBookmark(S_url3, S_title, S_created_slashes, S_description, S_abc)
R_invalid2 == PinboardBookmark(S_url, S_title, <<>>, S_two_words, S_abc)

PipelineRecords == {R_valid, R_valid2, R_invalid, R_invalid2}

Bodies == UNION {[1..n -> PipelineRecords] : n \in 0..MaxRecords}

Statuses == {200, 401, 404, 500}

Responses ==
    {Response(FALSE, 0, Err(TransportError))}
    \cup {Response(TRUE, s, Err(DecodeError)) : s \in Statuses}
    \cup {Response(TRUE, 404, Ok(<<R_valid>>)), Response(TRUE, 500, Ok(<<R_valid>>))}
    \cup {Response(TRUE, 200, Ok(b)) : b \in Bodies}

\* Opt: raindrop_folder (with its default), user_tags, clean_description
TransformProps(folder, user_tags, clean) ==
    [raindrop_folder |-> folder, user_tags |-> user_tags,
     clean_description |-> clean]

PipelineProps ==
    {TransformProps(f, u, c) : f \in {S_PinboardImports, S_Imported},
                               u \in {None, Some(S_pinboard)},
                               c \in BOOLEAN}

\* the file at the output path: absent, or left there by an earlier run
Disk(exists, rows) == [exists |-> exists, rows |-> rows]
StaleRow == << <<"s","t","a","l","e">> >>
InitialDisks == {Disk(FALSE, <<>>), Disk(TRUE, <<StaleRow>>)}

NoWriter == [open |-> FALSE, header_written |-> FALSE, buf |-> <<>>]

(***************************************************************************)
(* State.                                                                  *)
(***************************************************************************)
VARIABLES
    props,      \* TransformProps of the run
    disk,       \* the file at the output path
    pc,         \* where main is
    response,   \* <<>> before the request, <<resp>> after
    fetched,    \* the Vec pb_fetch returned
    next_i,     \* how many of its elements the map has consumed
    valid,      \* partition: the results for which is_ok holds
    errors,     \* partition: the others
    stdout,     \* lines printed
    bms,        \* the Vec main hands to write_file
    data,       \* what the loop of write_file has not serialized yet
    wtr,        \* the csv Writer
    outcome,    \* "running", "ok" (main returned Ok), "err", "panic"
    error,      \* <<>> or <<the error main returned>>
    pb_bm,      \* unit tests: <<the bookmark under test>>
    rd_bm       \* unit tests: <<>> or <<the result of into_raindrop>>

vars == <<props, disk, pc, response, fetched, next_i, valid, errors, stdout,
          bms, data, wtr, outcome, error, pb_bm, rd_bm>>

Init ==
    /\ props \in PipelineProps
    /\ disk \in InitialDisks
    /\ pc = "fetch"
    /\ response = <<>>
    /\ fetched = <<>>
    /\ next_i = 0
    /\ valid = <<>>
    /\ errors = <<>>
    /\ stdout = <<>>
    /\ bms = <<>>
    /\ data = <<>>
    /\ wtr = NoWriter
    /\ outcome = "running"
    /\ error = <<>>
    /\ pb_bm = <<>>
    /\ rd_bm = <<>>

\* main returns Err(e)
Abort(e) ==
    /\ pc' = "exit"
    /\ outcome' = "err"
    /\ error' = <<e>>

(***************************************************************************)
(* raindrop: pb_fetch(url).await?                                          *)
(***************************************************************************)
pb_fetch ==
    /\ pc = "fetch"
    /\ \E resp \in Responses :
         /\ response' = <<resp>>
         /\ IF pb_fetch_result(resp).ok
            THEN /\ fetched' = pb_fetch_result(resp).val
                 /\ pc' = "transform"
                 /\ UNCHANGED <<outcome, error>>
            ELSE /\ Abort(pb_fetch_result(resp).val)
                 /\ UNCHANGED fetched
    /\ UNCHANGED <<props, disk, next_i, valid, errors, stdout, bms, data, wtr,
                   pb_bm, rd_bm>>

(***************************************************************************)
(* raindrop: one element through .map(into_raindrop).partition(is_ok)      *)
(***************************************************************************)
transform ==
    /\ pc = "transform"
    /\ next_i < Len(fetched)
    /\ next_i' = next_i + 1
    /\ LET r == into_raindrop(fetched[next_i + 1], props.raindrop_folder,
                              props.user_tags, props.clean_description)
       IN IF Result_is_ok(r)
          THEN valid' = push(valid, r) /\ UNCHANGED errors
          ELSE errors' = push(errors, r) /\ UNCHANGED valid
    /\ UNCHANGED <<props, disk, pc, response, fetched, stdout, bms, data, wtr,
                   outcome, error, pb_bm, rd_bm>>

(***************************************************************************)
(* raindrop: stats(valid.len(), errors.len()); Ok(valid)                   *)
(***************************************************************************)
stats_twice ==
    /\ pc = "transform"
    /\ next_i = Len(fetched)
    /\ stdout' = stdout \o stats_lines(Len(valid), Len(errors))
                        \o stats_lines(Len(valid), Len(errors))
    /\ pc' = "collect"
    /\ UNCHANGED <<props, disk, response, fetched, next_i, valid, errors, bms,
                   data, wtr, outcome, error, pb_bm, rd_bm>>
stats ==
    /\ pc = "transform"
    /\ next_i = Len(fetched)
    /\ stdout' = stdout \o stats_lines(Len(valid), Len(errors))
    /\ pc' = "collect"
    /\ UNCHANGED <<props, disk, response, fetched, next_i, valid, errors, bms,
                   data, wtr, outcome, error, pb_bm, rd_bm>>

(***************************************************************************)
(* main: .into_iter().map(|bm| bm.unwrap()).collect()                      *)
(***************************************************************************)
collect ==
    /\ pc = "collect"
    /\ IF \A i \in 1..Len(valid) : valid[i].ok
       THEN /\ bms' = [i \in 1..Len(valid) |-> valid[i].val]
            /\ pc' = "open"
            /\ UNCHANGED outcome
       ELSE /\ outcome' = "panic"
            /\ pc' = "exit"
            /\ UNCHANGED bms
    /\ UNCHANGED <<props, disk, response, fetched, next_i, valid, errors,
                   stdout, data, wtr, error, pb_bm, rd_bm>>

(***************************************************************************)
(* write_file: Writer::from_path(output)?  creates or truncates the file   *)
(***************************************************************************)
from_path ==
    /\ pc = "open"
    /\ \E io_ok \in BOOLEAN :
         IF io_ok
         THEN /\ disk' = Disk(TRUE, <<>>)
              /\ wtr' = [open |-> TRUE, header_written |-> FALSE, buf |-> <<>>]
              /\ data' = bms
              /\ pc' = "serialize"
              /\ UNCHANGED <<outcome, error>>
         ELSE /\ Abort(IoError)
              /\ UNCHANGED <<disk, wtr, data>>
    /\ UNCHANGED <<props, response, fetched, next_i, valid, errors, stdout, bms,
                   pb_bm, rd_bm>>

\* the Writer is dropped on an error: what it buffered may or may not reach
\* the file
DropWriter ==
    /\ wtr' = NoWriter
    /\ \E flushed \in BOOLEAN :
         disk' = IF flushed THEN Disk(TRUE, disk.rows \o wtr.buf) ELSE disk

(***************************************************************************)
(* write_file: wtr.serialize(datum)?  for the next datum                   *)
(***************************************************************************)
serialize ==
    /\ pc = "serialize"
    /\ data # <<>>
    /\ \E io_ok \in BOOLEAN :
         IF io_ok
         THEN /\ wtr' = [open |-> TRUE, header_written |-> TRUE,
                         buf |-> wtr.buf
                                 \o (IF wtr.header_written THEN <<>> ELSE <<Header>>)
                                 \o <<Row(Head(data))>>]
              /\ data' = Tail(data)
              /\ UNCHANGED <<disk, pc, outcome, error>>
         ELSE /\ Abort(IoError)
              /\ DropWriter
              /\ UNCHANGED data
    /\ UNCHANGED <<props, response, fetched, next_i, valid, errors, stdout, bms,
                   pb_bm, rd_bm>>

(***************************************************************************)
(* write_file: wtr.flush()?; Ok(())  and main returns Ok(())               *)
(***************************************************************************)
flush ==
    /\ pc = "serialize"
    /\ data = <<>>
    /\ \E io_ok \in BOOLEAN :
         IF io_ok
         THEN /\ disk' = Disk(TRUE, disk.rows \o wtr.buf)
              /\ wtr' = NoWriter
              /\ pc' = "exit"
              /\ outcome' = "ok"
              /\ UNCHANGED error
         ELSE /\ Abort(IoError)
              /\ DropWriter
    /\ UNCHANGED <<props, response, fetched, next_i, valid, errors, stdout, bms,
                   data, pb_bm, rd_bm>>

Next ==
    \/ pb_fetch
    \/ transform
    \/ stats
    \/ collect
    \/ from_path
    \/ serialize
    \/ flush

Spec == Init /\ [][Next]_vars

(***************************************************************************)
(* The unit tests of into_raindrop (valid_to_raindrop,                     *)
(* invalid_datetime_to_raindrop): build one PinboardBookmark, call         *)
(* into_raindrop on it with a folder, user tags and the cleaning flag.     *)
(***************************************************************************)
WsStrings == UNION {[1..n -> WhiteSpace] : n \in 0..MaxWsLen}

UnitCreateds ==
    {S_created, S_created_slashes, S_created_offset, S_created_day30,
     S_created_nozone, S_created_frac, S_created_leap, S_created_hour24, <<>>}

UnitDescriptions == WsStrings \cup {S_description, S_two_words}

UnitTags == {<<>>, S_abc, <<" ", "c", " ">>}

UnitUserTags == {None, Some(<<>>), Some(S_pinboard), Some(<<"c">>)}

UnitProps ==
    {TransformProps(f, u, c) : f \in {S_Imported, S_PinboardImports},
                               u \in UnitUserTags, c \in BOOLEAN}

UnitBookmarks ==
    {PinboardBookmark(S_url, S_title, c, d, t) :
        c \in UnitCreateds, d \in UnitDescriptions, t \in UnitTags}

InitUnit ==
    /\ props \in UnitProps
    /\ pb_bm \in {<<b>> : b \in UnitBookmarks}
    /\ rd_bm = <<>>
    /\ pc = "test"
    /\ disk = Disk(FALSE, <<>>)
    /\ response = <<>>
    /\ fetched = <<>>
    /\ next_i = 0
    /\ valid = <<>>
    /\ errors = <<>>
    /\ stdout = <<>>
    /\ bms = <<>>
    /\ data = <<>>
    /\ wtr = NoWriter
    /\ outcome = "running"
    /\ error = <<>>

call_into_raindrop ==
    /\ pc = "test"
    /\ rd_bm = <<>>
    /\ rd_bm' = <<into_raindrop(pb_bm[1], props.raindrop_folder,
                                props.user_tags, props.clean_description)>>
    /\ UNCHANGED <<props, disk, pc, response, fetched, next_i, valid, errors,
                   stdout, bms, data, wtr, outcome, error, pb_bm>>

NextUnit == call_into_raindrop

SpecUnit == InitUnit /\ [][NextUnit]_vars

(***************************************************************************)
(* Properties of a run.                                                    *)
(***************************************************************************)
IsValid(bm) == parse_from_rfc3339(bm.created)

ValidOnes(seq) == SelectSeq(seq, IsValid)

\* the transform results of the valid records of seq, in the order of seq
Transformed(seq) ==
    [i \in 1..Len(ValidOnes(seq)) |->
        into_raindrop(ValidOnes(seq)[i], props.raindrop_folder,
                      props.user_tags, props.clean_description).val]

\* the rows of the file other than the header row
DataRows(d) == SelectSeq(d.rows, LAMBDA r : r # Header)

FetchFailed(resp) ==
    ~resp.transport_ok \/ resp.status # 200 \/ ~resp.json.ok

FetchSucceeded == response # <<>> /\ ~FetchFailed(response[1])

\* C1: in a run where fetch and write succeed, with N valid and M invalid
\* records fetched, the two values printed are N and M, write_file is handed
\* N records and the file holds N data rows.
C1_Counts ==
    outcome = "ok" =>
        LET N == Len(ValidOnes(fetched))
            M == Len(fetched) - Len(ValidOnes(fetched))
        IN /\ stdout = <<success_msg(N), error_msg(M)>>
           /\ Len(bms) = N
           /\ Len(DataRows(disk)) = N

C1_Witness ==
    /\ outcome = "ok"
    /\ Len(ValidOnes(fetched)) = 2
    /\ Len(fetched) = 3
    /\ Len(DataRows(disk)) = 2

\* C2: the bookmarks handed to write_file, and the rows it writes, are the
\* transform results of the valid fetched records in their fetched order;
\* no failed record contributes a row.
C2_Order ==
    /\ pc \in {"open", "serialize"} => bms = Transformed(fetched)
    /\ outcome = "ok" =>
        /\ bms = Transformed(fetched)
        /\ DataRows(disk) = [i \in 1..Len(bms) |-> Row(bms[i])]

C2_Witness ==
    /\ outcome = "ok"
    /\ fetched = <<R_valid, R_invalid, R_valid2>>
    /\ Len(DataRows(disk)) = 2
    /\ DataRows(disk)[1][1] = S_url
    /\ DataRows(disk)[2][1] = S_url2

\* C3: a fetch that fails (transport error, status other than 200, body
\* that does not deserialize) ends the run with an error with no record
\* transformed, nothing printed and the output file neither opened nor
\* written; status 500 gives the token error and every other status the
\* error that carries the status code.
C3_FetchFailureAborts ==
    [][(response' # <<>> /\ FetchFailed(response'[1])) =>
          /\ outcome' = "err"
          /\ pc' = "exit"
          /\ next_i' = 0 /\ valid' = <<>> /\ errors' = <<>>
          /\ stdout' = <<>>
          /\ wtr' = NoWriter /\ disk' = disk
          /\ (response'[1].transport_ok /\ response'[1].status = 500
                => error' = <<Http500Error>>)
          /\ (response'[1].transport_ok /\ response'[1].status \notin {200, 500}
                => error' = <<HttpUnknownError(response'[1].status)>>)]_vars

C3_Witness ==
    /\ outcome = "err"
    /\ response # <<>>
    /\ response[1].transport_ok
    /\ response[1].status = 500
    /\ response[1].json.ok
    /\ error = <<Http500Error>>
    /\ disk = Disk(TRUE, <<StaleRow>>)

\* C4: a record that fails to transform never aborts the run: every element
\* of the vector raindrop returns is Ok, main never panics, an error main
\* returns is never a timestamp error, and when the fetch succeeded and no
\* I/O error occurred main returns Ok.
C4_RecordFailuresDoNotAbort ==
    /\ outcome # "panic"
    /\ \A i \in 1..Len(valid) : valid[i].ok
    /\ outcome = "err" => error # <<ParseError>>
    /\ (pc = "exit" /\ FetchSucceeded /\ error # <<IoError>>) => outcome = "ok"

C4_Witness ==
    /\ outcome = "ok"
    /\ Len(fetched) = MaxRecords
    /\ Len(errors) = Len(fetched)
    /\ valid = <<>>

\* C10: once the fetch has succeeded the two summary lines (successes, then
\* failures) are printed exactly once, after every record has been
\* transformed and before the output file is opened, whatever the counts
\* and whether or not the write fails; after a failed fetch nothing is
\* printed.
C10_SummaryPrintedOnce ==
    /\ pc \in {"fetch", "transform"} => stdout = <<>>
    /\ (response # <<>> /\ FetchFailed(response[1])) => stdout = <<>>
    /\ stdout # <<>> =>
         /\ next_i = Len(fetched)
         /\ stdout = <<success_msg(Len(valid)), error_msg(Len(errors))>>
    /\ (wtr.open \/ disk \notin InitialDisks) => Len(stdout) = 2
    /\ (FetchSucceeded /\ pc \in {"collect", "open", "serialize", "exit"})
         => Len(stdout) = 2

C10_Witness ==
    /\ outcome = "err"
    /\ error = <<IoError>>
    /\ fetched = <<>>
    /\ FetchSucceeded
    /\ stdout = <<success_msg(0), error_msg(0)>>

\* C9: in a run where fetch and write succeed the file is the header row
\* followed by one row per transformed record, for every number of
\* records, zero included.
C9_HeaderThenRows ==
    outcome = "ok" =>
        disk.rows = <<Header>> \o [i \in 1..Len(bms) |-> Row(bms[i])]

(***************************************************************************)
(* Properties of into_raindrop, over the unit-test inputs.                 *)
(***************************************************************************)
\* C5: into_raindrop succeeds exactly when created parses as RFC 3339,
\* whatever the folder, the user tags and the cleaning flag; on success the
\* output created is the input created unchanged, on failure the result is
\* the timestamp error and no bookmark.
C5_SucceedsIffValidTimestamp ==
    rd_bm # <<>> =>
        /\ rd_bm[1].ok <=> parse_from_rfc3339(pb_bm[1].created)
        /\ rd_bm[1].ok => rd_bm[1].val.created = pb_bm[1].created
        /\ ~rd_bm[1].ok => rd_bm[1].val = ParseError

C5_Witness ==
    /\ rd_bm # <<>>
    /\ rd_bm[1].ok
    /\ pb_bm[1].created = S_created_offset
    /\ rd_bm[1].val.created = S_created_offset
    /\ props.clean_description
    /\ props.user_tags = None

\* C6: the round-trip scenario: the bookmark of valid_to_raindrop, with
\* folder "Imported", user tags "@pinboard" and cleaning enabled, gives the
\* record whose description is the one-line text with no space after it.
C6_RoundTrip ==
    (/\ rd_bm # <<>>
     /\ pb_bm[1] = R_valid
     /\ props = TransformProps(S_Imported, Some(S_pinboard), TRUE))
    => rd_bm[1] = Ok(RaindropBookmark(S_url, S_Imported, S_title,
                                      S_description_one_line, S_abc_pinboard,
                                      S_created))

\* C7: with cleaning enabled, a description that is empty or made of
\* whitespace only gives the empty description, and the transform does not
\* fail because of it.
C7_WhitespaceCleansToEmpty ==
    (/\ rd_bm # <<>>
     /\ props.clean_description
     /\ \A i \in 1..Len(pb_bm[1].description) :
            pb_bm[1].description[i] \in WhiteSpace
     /\ parse_from_rfc3339(pb_bm[1].created))
    => /\ rd_bm[1].ok
       /\ rd_bm[1].val.description = <<>>

\* C8: the output tags are the source tags, one space and the user tags,
\* nothing removed, reordered or trimmed; without user tags they are the
\* source tags unchanged.
C8_TagsConcatenated ==
    (rd_bm # <<>> /\ rd_bm[1].ok) =>
        rd_bm[1].val.tags =
            IF props.user_tags = None THEN pb_bm[1].tags
            ELSE pb_bm[1].tags \o <<" ">> \o props.user_tags[1]

C8_Witness ==
    /\ rd_bm # <<>>
    /\ rd_bm[1].ok
    /\ pb_bm[1].tags = <<" ", "c", " ">>
    /\ props.user_tags = Some(<<"c">>)
    /\ rd_bm[1].val.tags = <<" ", "c", " ", " ", "c">>

====
